---- MODULE Spec2Model ----
(***************************************************************************)
(* Face Attendance API (app/main.py): the two handlers save_embedding and  *)
(* checkin_vec, run by concurrent request workers against one PostgreSQL   *)
(* store.  Every connection is opened with autocommit=True, so each        *)
(* cur.execute is its own transaction.  The tables users, sessions and     *)
(* enrollments are written by no handler, so the statements that read only *)
(* them, and the Python code around them, are folded into the next         *)
(* statement on a table or a clock that does change: save_embedding is one *)
(* action (its upsert), checkin_vec is three (the candidate query, the     *)
(* scan with its reading of the clock, the attendance upsert).  Workers    *)
(* are interchangeable: the requests being served are kept as a bag.       *)
(*                                                                         *)
(* Descriptors are sequences of integers.  A similarity d / sqrt(q) is     *)
(* kept exactly as the record [d |-> d, q |-> q] (q > 0) and compared by   *)
(* cross-multiplication, so ties and the 0.60 boundary are exact.          *)
(***************************************************************************)
EXTENDS Integers, Sequences, FiniteSets, Bags, TLC

\* ---------------------------------------------------------------- bounds
NumWorkers == 2
MaxCalls == 2
MaxClock == 2

\* ------------------------------------------------------ program constants
MinDims == 64
MaxDims == 128
None == -1

Min(a, b) == IF a <= b THEN a ELSE b

\* ------------------------------------------------------------ descriptors
\* n entries: k entries -1, then n-k entries 1
Vec(n, k) == [i \in 1..n |-> IF i <= k THEN -1 ELSE 1]

\* bodies sent to POST /api/students/{student_id}/embedding
SaveBodies == {Vec(63, 0), Vec(80, 16), Vec(130, 0)}
\* bodies sent to POST /api/attendance/checkin-vec
LiveBodies == {Vec(63, 0), Vec(80, 0), Vec(80, 33), Vec(130, 0)}

StudentIds == 1..4
CourseIds == 1..2
SessionIds == 1..2

\* ------------------------------------------------------- collaborator store
InitUsers ==
    { [id |-> 1, role |-> "student"],
      [id |-> 2, role |-> "student"],
      [id |-> 3, role |-> "teacher"] }

InitEnrollments ==
    { [course_id |-> 1, student_id |-> 1],
      [course_id |-> 1, student_id |-> 2],
      [course_id |-> 2, student_id |-> 2] }

InitSessions ==
    { [id |-> 1, course_id |-> 1, start_time |-> 0, late_after_minutes |-> 1],
      [id |-> 2, course_id |-> 2, start_time |-> 1, late_after_minutes |-> None] }

VARIABLES
    users,          \* public.users: rows [id, role]
    enrollments,    \* public.enrollments: rows [course_id, student_id]
    sessions,       \* public.sessions: rows [id, course_id, start_time, late_after_minutes]
    embeddings,     \* public.student_embeddings: rows [student_id, embedding, created_at]
    attendance,     \* public.attendance: rows [session_id, student_id, status, timestamp]
    clock,          \* the current instant (minutes), read by datetime.now and NOW()
    calls,          \* requests received so far
    inflight,       \* the bag of checkin_vec calls being served, each with its locals
    last            \* the request completed last, with its response

vars == <<users, enrollments, sessions, embeddings, attendance, clock, calls,
          inflight, last>>
tables == <<users, enrollments, sessions>>

\* ------------------------------------------------------------------- JSON
\* A jsonb value is an array of numbers or a string; the driver hands an array
\* back as a list and a string back as a str.
JsonArray(v) == [kind |-> "array", items |-> v, text |-> <<>>]
JsonString(t) == [kind |-> "string", items |-> <<>>, text |-> t]

\* psycopg's Json(emb): the list, serialised and stored as a jsonb array
Json(emb) == JsonArray(emb)

TokLB == [t |-> "[", v |-> 0]
TokRB == [t |-> "]", v |-> 0]
TokComma == [t |-> ",", v |-> 0]
TokNum(x) == [t |-> "num", v |-> x]

\* json.dumps of a list of numbers, as a token sequence
json_dumps(v) ==
    IF Len(v) = 0 THEN <<TokLB, TokRB>>
    ELSE [i \in 1..(2 * Len(v) + 1) |->
            IF i = 1 THEN TokLB
            ELSE IF i = 2 * Len(v) + 1 THEN TokRB
            ELSE IF i % 2 = 0 THEN TokNum(v[i \div 2])
            ELSE TokComma]

\* json.loads on a str: the list it denotes, or a raised exception (ok = FALSE)
json_loads(text) ==
    LET n == Len(text)
        wellFormed ==
            /\ n >= 2
            /\ text[1].t = "["
            /\ text[n].t = "]"
            /\ \/ n = 2
               \/ /\ n % 2 = 1
                  /\ \A i \in 2..(n - 1) :
                        text[i].t = (IF i % 2 = 0 THEN "num" ELSE ",")
    IN  IF wellFormed
        THEN [ok |-> TRUE, val |-> [i \in 1..((n - 1) \div 2) |-> text[2 * i].v]]
        ELSE [ok |-> FALSE, val |-> <<>>]

\* ------------------------------------------------------------- similarity
\* the sum of count[v] * v over the values v of S
RECURSIVE WeightedSum(_, _)
WeightedSum(S, count) ==
    IF S = {} THEN 0
    ELSE LET v == CHOOSE x \in S : TRUE
         IN  count[v] * v + WeightedSum(S \ {v}, count)

\* sum(x * y for x, y in zip(a, b)), for Len(a) = Len(b): each value the
\* products take, times the number of places where they take it
Dot(a, b) ==
    LET values == {a[i] * b[i] : i \in 1..Len(a)}
        count == [v \in values |-> Cardinality({i \in 1..Len(a) : a[i] * b[i] = v})]
    IN  WeightedSum(values, count)

Sentinel == [d |-> -1, q |-> 1]
Threshold == [d |-> 3, q |-> 25]

\* called by the scan of checkin_vec; app/main.py does not define it, so it
\* follows its documented contract: -1.0 for empty, different-length or
\* zero-norm inputs, dot(a, b) / (|a| * |b|) otherwise, here without rounding
cosine_similarity(a, b) ==
    IF Len(a) = 0 \/ Len(b) = 0 \/ Len(a) # Len(b) THEN Sentinel
    ELSE LET na == Dot(a, a)
             nb == Dot(b, b)
         IN  IF na = 0 \/ nb = 0 THEN Sentinel
             ELSE [d |-> Dot(a, b), q |-> na * nb]

\* sign(x.d) * x.d^2 / x.q is monotone in x.d / sqrt(x.q)
Sq(x, y) == (IF x.d < 0 THEN -1 ELSE 1) * x.d * x.d * y.q
SimLT(x, y) == Sq(x, y) < Sq(y, x)
SimEQ(x, y) == Sq(x, y) = Sq(y, x)

\* --------------------------------------------------------- request workers
NoResp == [code |-> 0, detail |-> "", student_id |-> None, saved_dims |-> 0,
           status |-> ""]
\* the locals of a checkin_vec call that has run its candidate query
Locals(body, course_id, session_id, live, session_row, rows) ==
    [pc |-> "scan", body |-> body, course_id |-> course_id,
     session_id |-> session_id, live |-> live,
     start_time |-> session_row.start_time,
     late_after |-> session_row.late_after_minutes, rows |-> rows,
     best_id |-> None, best_sim |-> Sentinel, now |-> None, status |-> ""]

NoRequest ==
    [op |-> "", body |-> <<>>, student_id |-> None, course_id |-> None,
     session_id |-> None, resp |-> NoResp]

HTTPException(status_code, detail) ==
    [NoResp EXCEPT !.code = status_code, !.detail = detail]

SaveRequest(student_id, body, resp) ==
    [NoRequest EXCEPT !.op = "save", !.body = body, !.student_id = student_id,
                      !.resp = resp]

CheckinRequest(course_id, session_id, body, resp) ==
    [NoRequest EXCEPT !.op = "checkin", !.body = body, !.course_id = course_id,
                      !.session_id = session_id, !.resp = resp]

\* a request is taken when a worker is free
Accepts == calls < MaxCalls /\ BagCardinality(inflight) < NumWorkers

Serving == BagToSet(inflight)
Without(l) == inflight (-) SetToBag({l})

\* ---------------------------------------------------------- save_embedding
TooShort(emb) == Len(emb) < MinDims

\* mutant: the descriptor is stored untruncated
TruncateNothing(emb) == emb

Truncate(emb) == SubSeq(emb, 1, Min(Len(emb), MaxDims))

\* mutant: the role of the user row is not looked at
RoleCheckExistsOnly(rowset) == IF rowset = {} THEN 404 ELSE 0

\* 0 when the user row allows the save, else the status code raised
RoleCheck(rowset) ==
    IF rowset = {} THEN 404
    ELSE IF \E row \in rowset : row.role # "student" THEN 400
    ELSE 0

\* mutant: ON CONFLICT (student_id) DO NOTHING
InsertEmbeddingIfAbsent(table, student_id, value, ts) ==
    IF \E r \in table : r.student_id = student_id THEN table
    ELSE table \cup {[student_id |-> student_id, embedding |-> value,
                      created_at |-> ts]}

UpsertEmbedding(table, student_id, value, ts) ==
    {r \in table : r.student_id # student_id}
        \cup {[student_id |-> student_id, embedding |-> value, created_at |-> ts]}

save_embedding(student_id, body) ==
    /\ Accepts
    /\ calls' = calls + 1
    /\ LET emb == Truncate(body)
           row == {u \in users : u.id = student_id}
           code == RoleCheck(row)
       IN  IF TooShort(body)
           THEN /\ last' = SaveRequest(student_id, body,
                              HTTPException(400, "Invalid embedding length"))
                /\ UNCHANGED embeddings
           ELSE IF code = 404
           THEN /\ last' = SaveRequest(student_id, body,
                              HTTPException(404, "Student not found"))
                /\ UNCHANGED embeddings
           ELSE IF code = 400
           THEN /\ last' = SaveRequest(student_id, body,
                              HTTPException(400, "User is not a student"))
                /\ UNCHANGED embeddings
           ELSE /\ embeddings' = UpsertEmbedding(embeddings, student_id, Json(emb), clock)
                /\ last' = SaveRequest(student_id, body,
                              [NoResp EXCEPT !.code = 200, !.student_id = student_id,
                                             !.saved_dims = Len(emb)])
    /\ UNCHANGED <<tables, attendance, clock, inflight>>

\* ------------------------------------------------------------- checkin_vec
\* mutant: the live descriptor is compared untruncated
TruncateLiveNothing(live) == live

TruncateLive(live) == SubSeq(live, 1, Min(Len(live), MaxDims))

\* mutant: WHERE id=%s, without the course
SelectSessionById(table, session_id, course_id) ==
    {s \in table : s.id = session_id}

SelectSession(table, session_id, course_id) ==
    {s \in table : s.id = session_id /\ s.course_id = course_id}

SelectCandidates(emb_table, enr_table, course_id) ==
    {[student_id |-> se.student_id, embedding |-> se.embedding] :
        se \in {x \in emb_table :
                  \E e \in enr_table :
                      e.student_id = x.student_id /\ e.course_id = course_id}}

\* every order in which the query may return the rows of S
Orders(S) == {f \in [1..Cardinality(S) -> S] : \A i, j \in DOMAIN f : f[i] = f[j] => i = j}

\* the row's embedding as handed to cosine_similarity, or skip
Decode(emb_obj) ==
    IF emb_obj.kind = "string"
    THEN LET r == json_loads(emb_obj.text)
         IN  [skip |-> ~r.ok, emb |-> r.val]
    ELSE [skip |-> FALSE, emb |-> emb_obj.items]

\* mutant: sim >= best_sim
BetterOrEqual(sim, best_sim) == ~SimLT(sim, best_sim)

Better(sim, best_sim) == SimLT(best_sim, sim)

RECURSIVE ScanFrom(_, _, _, _)
ScanFrom(rows, live, i, best) ==
    IF i > Len(rows) THEN best
    ELSE LET dec == Decode(rows[i].embedding)
             sim == cosine_similarity(live, dec.emb)
         IN  IF dec.skip THEN ScanFrom(rows, live, i + 1, best)
             ELSE IF Better(sim, best.sim)
             THEN ScanFrom(rows, live, i + 1,
                           [id |-> rows[i].student_id, sim |-> sim])
             ELSE ScanFrom(rows, live, i + 1, best)

\* mutant: break instead of continue on a row that does not decode
RECURSIVE ScanBreakFrom(_, _, _, _)
ScanBreakFrom(rows, live, i, best) ==
    IF i > Len(rows) THEN best
    ELSE LET dec == Decode(rows[i].embedding)
             sim == cosine_similarity(live, dec.emb)
         IN  IF dec.skip THEN best
             ELSE IF Better(sim, best.sim)
             THEN ScanBreakFrom(rows, live, i + 1,
                                [id |-> rows[i].student_id, sim |-> sim])
             ELSE ScanBreakFrom(rows, live, i + 1, best)

ScanBreak(rows, live) == ScanBreakFrom(rows, live, 1, [id |-> None, sim |-> Sentinel])

Scan(rows, live) == ScanFrom(rows, live, 1, [id |-> None, sim |-> Sentinel])

\* mutant: best_sim <= 0.60 is rejected
RejectedAtThreshold(best_id, best_sim) == best_id = None \/ ~SimLT(Threshold, best_sim)

Rejected(best_id, best_sim) == best_id = None \/ SimLT(best_sim, Threshold)

\* cutoff = start_time + timedelta(minutes=(late_after or 0))
Cutoff(start_time, late_after) ==
    start_time + (IF late_after = None \/ late_after = 0 THEN 0 ELSE late_after)

\* mutant: now < cutoff
StatusBefore(now, start_time, late_after) ==
    IF now < Cutoff(start_time, late_after) THEN "present" ELSE "late"

StatusAt(now, start_time, late_after) ==
    IF now <= Cutoff(start_time, late_after) THEN "present" ELSE "late"

\* mutant: a plain INSERT, no ON CONFLICT
InsertAttendance(table, session_id, student_id, status, ts) ==
    table \cup {[session_id |-> session_id, student_id |-> student_id,
                 status |-> status, timestamp |-> ts]}

UpsertAttendance(table, session_id, student_id, status, ts) ==
    {r \in table : ~(r.session_id = session_id /\ r.student_id = student_id)}
        \cup {[session_id |-> session_id, student_id |-> student_id,
               status |-> status, timestamp |-> ts]}

\* lines 109-141: validation, the session query, the candidate query
CheckinSelect(course_id, session_id, body) ==
    /\ Accepts
    /\ calls' = calls + 1
    /\ LET s == SelectSession(sessions, session_id, course_id)
           found == SelectCandidates(embeddings, enrollments, course_id)
       IN  IF TooShort(body)
           THEN /\ last' = CheckinRequest(course_id, session_id, body,
                              HTTPException(400, "Invalid embedding length"))
                /\ UNCHANGED inflight
           ELSE IF s = {}
           THEN /\ last' = CheckinRequest(course_id, session_id, body,
                              HTTPException(404, "Session not found for course"))
                /\ UNCHANGED inflight
           ELSE IF found = {}
           THEN /\ last' = CheckinRequest(course_id, session_id, body,
                              HTTPException(404, "No embeddings for this course"))
                /\ UNCHANGED inflight
           ELSE /\ \E row \in s, rows \in Orders(found) :
                      inflight' = inflight (+) SetToBag({
                          Locals(body, course_id, session_id, TruncateLive(body),
                                 row, rows)})
                /\ UNCHANGED last
    /\ UNCHANGED <<tables, embeddings, attendance, clock>>

\* lines 145-166: the scan, the threshold, now and the status
CheckinScan(l) ==
    /\ l.pc = "scan"
    /\ \E best \in {Scan(l.rows, l.live)} :
          IF Rejected(best.id, best.sim)
          THEN /\ last' = CheckinRequest(l.course_id, l.session_id, l.body,
                             HTTPException(404, "No matching student"))
               /\ inflight' = Without(l)
          ELSE /\ inflight' = Without(l) (+) SetToBag({
                     [l EXCEPT !.pc = "upsert", !.best_id = best.id,
                               !.best_sim = best.sim, !.now = clock,
                               !.status = StatusAt(clock, l.start_time,
                                                   l.late_after)]})
               /\ UNCHANGED last
    /\ UNCHANGED <<tables, embeddings, attendance, clock, calls>>

\* lines 169-186: the attendance upsert and the response
CheckinUpsert(l) ==
    /\ l.pc = "upsert"
    /\ attendance' = UpsertAttendance(attendance, l.session_id, l.best_id,
                                      l.status, clock)
    /\ last' = CheckinRequest(l.course_id, l.session_id, l.body,
                  [NoResp EXCEPT !.code = 200, !.student_id = l.best_id,
                                 !.status = l.status])
    /\ inflight' = Without(l)
    /\ UNCHANGED <<tables, embeddings, clock, calls>>

Tick ==
    /\ clock < MaxClock
    /\ clock' = clock + 1
    /\ UNCHANGED <<tables, embeddings, attendance, calls, inflight, last>>

Next ==
    \/ \E sid \in StudentIds, body \in SaveBodies : save_embedding(sid, body)
    \/ \E c \in CourseIds, s \in SessionIds, body \in LiveBodies : CheckinSelect(c, s, body)
    \/ \E l \in Serving : CheckinScan(l)
    \/ \E l \in Serving : CheckinUpsert(l)
    \/ Tick

\* ------------------------------------------------------ the store at start
Saved(student_id, body) ==
    [student_id |-> student_id, embedding |-> Json(Truncate(body)), created_at |-> 0]

\* reference embeddings left by earlier save_embedding calls
InitEmbeddings ==
    { {}, {Saved(1, Vec(80, 16)), Saved(2, Vec(130, 0))} }

\* a store that also holds rows written before embeddings were stored with
\* Json(): the JSON text of the list, or a text cut short, as a jsonb string
Legacy(student_id, text) ==
    [student_id |-> student_id, embedding |-> JsonString(text), created_at |-> 0]

CutShort(text) == SubSeq(text, 1, Len(text) - 1)

LegacyEmbeddings ==
    { {Legacy(1, CutShort(json_dumps(Vec(80, 16)))), Saved(2, Vec(80, 16))},
      {Legacy(1, CutShort(json_dumps(Vec(80, 16)))), Legacy(2, json_dumps(Vec(80, 16)))},
      {Legacy(1, CutShort(json_dumps(Vec(80, 16))))} }

InitWith(emb_tables) ==
    /\ users = InitUsers
    /\ enrollments = InitEnrollments
    /\ sessions = InitSessions
    /\ embeddings \in emb_tables
    /\ attendance = {}
    /\ clock = 0
    /\ calls = 0
    /\ inflight = EmptyBag
    /\ last = NoRequest

Init == InitWith(InitEmbeddings)

Spec == Init /\ [][Next]_vars

InitLegacy == InitWith(LegacyEmbeddings)

SpecLegacy == InitLegacy /\ [][Next]_vars

\* ================================================================ claims
\* which step of which handler a transition is
SaveReturns == calls' = calls + 1 /\ inflight' = inflight /\ last'.op = "save"
SaveApplied == SaveReturns /\ last'.resp.code = 200
\* for l among the calls being served: the step is l's scan, ending in a
\* rejection or going on to the upsert as m, or it is l's upsert
Serving2 == BagToSet(inflight')
ScanRejects(l) == l.pc = "scan" /\ inflight' = Without(l)
ScanAccepts(l, m) ==
    l.pc = "scan" /\ m.pc = "upsert" /\ inflight' = Without(l) (+) SetToBag({m})
UpsertEnds(l) == l.pc = "upsert" /\ inflight' = Without(l)

\* the first min(n, 128) entries of a descriptor of n entries
FirstDims(body) == [i \in 1..(IF Len(body) < MaxDims THEN Len(body) ELSE MaxDims) |-> body[i]]

\* the rows of a candidate list that decode, and a row's similarity to live
Decodes(row) == ~Decode(row.embedding).skip
Considered(rows) == {i \in 1..Len(rows) : Decodes(rows[i])}
SimAt(rows, live, i) == cosine_similarity(live, Decode(rows[i].embedding).emb)
SomeSimReaches(rows, live) ==
    \E i \in Considered(rows) : ~SimLT(SimAt(rows, live, i), Threshold)

\* ---- C1
AttendanceKeyUnique ==
    \A a, b \in attendance :
        (a.session_id = b.session_id /\ a.student_id = b.student_id) => a = b

LaterCheckinGoverns ==
    \A l \in Serving :
        UpsertEnds(l) =>
            /\ \E r \in attendance' :
                  r.session_id = l.session_id /\ r.student_id = l.best_id
            /\ \A r \in attendance' :
                  (r.session_id = l.session_id /\ r.student_id = l.best_id)
                      => (r.status = l.status /\ r.timestamp = clock)
            /\ \A r \in attendance' :
                  ~(r.session_id = l.session_id /\ r.student_id = l.best_id)
                      => r \in attendance

\* C1: whatever the interleaving of check-ins, the attendance table holds at
\* most one record per (session_id, student_id); and each check-in's upsert
\* leaves, for its (session, matched student), exactly the record carrying the
\* status that check-in computed, so of two check-ins applied one after the
\* other the record carries the second one's status.
C1_OneRecordPerPair == []AttendanceKeyUnique /\ [][LaterCheckinGoverns]_vars

\* a check-in has recorded one status for a (session, student), and a second
\* check-in matching the same student in the same session is at its upsert with
\* the other status
C1_Witness ==
    \E l \in Serving :
        /\ l.pc = "upsert"
        /\ last.op = "checkin" /\ last.resp.code = 200
        /\ last.session_id = l.session_id
        /\ last.resp.student_id = l.best_id
        /\ last.resp.status # l.status
        /\ \E r \in attendance :
              /\ r.session_id = l.session_id
              /\ r.student_id = l.best_id
              /\ r.status = last.resp.status

\* ---- C2
EmbeddingKeyUnique ==
    \A a, b \in embeddings : a.student_id = b.student_id => a = b

LastSaveWins ==
    /\ SaveApplied =>
          /\ \E r \in embeddings' : r.student_id = last'.student_id
          /\ \A r \in embeddings' :
                r.student_id = last'.student_id
                    => r.embedding = JsonArray(FirstDims(last'.body))
          /\ \A r \in embeddings' : r.student_id # last'.student_id => r \in embeddings
          /\ \A r \in embeddings : r.student_id # last'.student_id => r \in embeddings'
    /\ ~SaveApplied => embeddings' = embeddings

\* C2: in every interleaving of saves, a student has at most one reference
\* row; a save's upsert leaves for its student exactly one row, holding the
\* truncated descriptor of that save and nothing of an earlier one, and no
\* other step changes the table: the stored value is that of the upsert
\* applied last.
C2_LastWriteWins == []EmbeddingKeyUnique /\ [][LastSaveWins]_vars

\* one call was made, a save for student 1 that went through, and it replaced
\* the row the store held for student 1 (student 2's row is the one of the start)
C2_Witness ==
    /\ calls = 1
    /\ last.op = "save" /\ last.resp.code = 200 /\ last.student_id = 1
    /\ Saved(2, Vec(130, 0)) \in embeddings
    /\ Saved(1, Vec(80, 16)) \notin embeddings
    /\ \E r \in embeddings : r.student_id = 1 /\ r.embedding = JsonArray(FirstDims(last.body))

\* ---- C3
SaveErrors ==
    (last.op = "save" /\ Len(last.body) >= MinDims) =>
        /\ (\A u \in users : u.id # last.student_id)
              => (last.resp.code = 404 /\ last.resp.detail = "Student not found")
        /\ (\E u \in users : u.id = last.student_id /\ u.role # "student")
              => (last.resp.code = 400 /\ last.resp.detail = "User is not a student")

OnlyStudentsHaveEmbeddings ==
    \A r \in embeddings : \E u \in users : u.id = r.student_id /\ u.role = "student"

FailedSaveWritesNothing ==
    (SaveReturns /\ last'.resp.code # 200) => embeddings' = embeddings

\* C3: a save whose descriptor passed the length check fails with 404 when no
\* users row has the student id and with 400 when the row's role is not
\* 'student'; a failed save leaves student_embeddings unchanged, and every
\* stored reference embedding belongs to a user with role 'student'.
C3_OnlyStudents ==
    [](SaveErrors /\ OnlyStudentsHaveEmbeddings) /\ [][FailedSaveWritesNothing]_vars

\* a save for the teacher (user 3) was refused while the store holds embeddings
C3_Witness ==
    /\ last.op = "save" /\ last.student_id = 3
    /\ last.resp.code = 400 /\ last.resp.detail = "User is not a student"
    /\ embeddings # {}

\* ---- C4
SessionOfOtherCourse(session_id, course_id) ==
    /\ \E s \in sessions : s.id = session_id /\ s.course_id # course_id
    /\ \A s \in sessions : s.id = session_id => s.course_id # course_id

\* C4: a check-in (with a descriptor that passed the length check) whose
\* session_id exists under another course than the supplied course_id ends in
\* 404 "Session not found for course"; no such request ever gets to the scan or
\* to the attendance upsert, whatever the embeddings and enrollments are; and
\* every attendance record is of a student enrolled in its session's course.
C4_NoCrossCourseSession ==
    /\ \A l \in Serving : ~SessionOfOtherCourse(l.session_id, l.course_id)
    /\ (/\ last.op = "checkin"
        /\ Len(last.body) >= MinDims
        /\ SessionOfOtherCourse(last.session_id, last.course_id))
          => (/\ last.resp.code = 404
              /\ last.resp.detail = "Session not found for course")
    /\ \A r \in attendance :
          \E s \in sessions, e \in enrollments :
              /\ s.id = r.session_id
              /\ e.course_id = s.course_id
              /\ e.student_id = r.student_id

\* session 1 of course 1 was used with course 2, whose enrolled student 2 has
\* a reference embedding the live descriptor equals, and the request got 404
C4_Witness ==
    /\ last.op = "checkin" /\ last.session_id = 1 /\ last.course_id = 2
    /\ last.body = Vec(130, 0)
    /\ Saved(2, Vec(130, 0)) \in embeddings
    /\ last.resp.code = 404
    /\ attendance = {}

\* ---- C5
ThresholdDecides ==
    /\ \A l \in Serving :
          ScanRejects(l) =>
              /\ ~SomeSimReaches(l.rows, l.live)
              /\ last'.resp.code = 404
              /\ last'.resp.detail = "No matching student"
              /\ attendance' = attendance
    /\ \A l \in Serving, m \in Serving2 :
          ScanAccepts(l, m) =>
              /\ SomeSimReaches(l.rows, l.live)
              /\ attendance' = attendance
    /\ attendance' # attendance =>
          \E l \in Serving : UpsertEnds(l) /\ SomeSimReaches(l.rows, l.live)

\* C5: the scan goes on to the attendance upsert exactly when some candidate's
\* similarity is >= 0.60 (0.60 itself included); otherwise the request ends in
\* 404 "No matching student" with the attendance table unchanged; and the
\* attendance table changes only in the upsert of a request whose best
\* similarity is >= 0.60.
C5_ThresholdDecides == [][ThresholdDecides]_vars

\* a check-in whose best similarity is exactly 0.60 is at its upsert
C5_Witness ==
    \E l \in Serving :
        /\ l.pc = "upsert"
        /\ SimEQ(l.best_sim, Threshold)
        /\ \A i \in Considered(l.rows) :
              ~SimLT(Threshold, SimAt(l.rows, l.live, i))

\* ---- C6
StatusIsPresentOrLate == \A r \in attendance : r.status \in {"present", "late"}

GraceMinutes(s) == IF s.late_after_minutes = None THEN 0 ELSE s.late_after_minutes

StatusFollowsNow ==
    /\ \A l \in Serving, m \in Serving2 : ScanAccepts(l, m) => m.now = clock
    /\ \A l \in Serving :
          UpsertEnds(l) =>
              \E s \in sessions :
                  /\ s.id = l.session_id
                  /\ s.course_id = l.course_id
                  /\ \A r \in attendance' :
                        (r.session_id = s.id /\ r.student_id = l.best_id)
                            => (r.status = "present"
                                    <=> l.now <= s.start_time + GraceMinutes(s))
                  /\ last'.resp.status = "present"
                        <=> l.now <= s.start_time + GraceMinutes(s)

\* C6: the status a check-in records (and reports) is 'present' exactly when
\* the instant now it read satisfies now <= start_time + late_after_minutes of
\* its session, a NULL late_after_minutes counting as 0, and 'late' otherwise;
\* no attendance record has another status.
C6_PresentOrLate == []StatusIsPresentOrLate /\ [][StatusFollowsNow]_vars

\* a check-in of session 1 (start 0, 1 minute of grace) read now no later
\* than the cutoff and is recorded present by an upsert that ran after it
C6_Witness ==
    /\ last.op = "checkin" /\ last.resp.code = 200 /\ last.session_id = 1
    /\ last.resp.status = "present"
    /\ \E r \in attendance :
          r.session_id = 1 /\ r.status = "present" /\ r.timestamp = 2

\* ---- C7
SaveLengthRule ==
    last.op = "save" =>
        /\ Len(last.body) < MinDims
              => (last.resp.code = 400 /\ last.resp.detail = "Invalid embedding length")
        /\ last.resp.code = 200
              => last.resp.saved_dims =
                    (IF Len(last.body) < MaxDims THEN Len(last.body) ELSE MaxDims)

StoredLengths ==
    \A r \in embeddings :
        /\ r.embedding.kind = "array"
        /\ Len(r.embedding.items) >= MinDims
        /\ Len(r.embedding.items) <= MaxDims

SaveStoresFirstDims ==
    /\ (SaveReturns /\ Len(last'.body) < MinDims) => embeddings' = embeddings
    /\ SaveApplied =>
          \E r \in embeddings' :
              /\ r.student_id = last'.student_id
              /\ r.embedding = JsonArray(FirstDims(last'.body))

\* C7: a save of a descriptor of fewer than 64 entries ends in 400 "Invalid
\* embedding length" with the store unchanged; a save that goes through stores
\* the first min(n, 128) entries and reports saved_dims = min(n, 128); every
\* stored reference embedding has between 64 and 128 entries.
C7_StoredDims ==
    [](SaveLengthRule /\ StoredLengths) /\ [][SaveStoresFirstDims]_vars

\* a descriptor of 130 entries was saved as 128
C7_Witness ==
    /\ last.op = "save" /\ Len(last.body) = 130
    /\ last.resp.code = 200 /\ last.resp.saved_dims = 128
    /\ \E r \in embeddings :
          r.student_id = last.student_id /\ Len(r.embedding.items) = 128

\* ---- C8
\* C8 as stated: every reference embedding the scan compares with the live
\* descriptor has the live descriptor's length.
C8_EqualLengths ==
    \A l \in Serving :
        l.pc = "scan" =>
            \A i \in Considered(l.rows) :
                Len(Decode(l.rows[i].embedding).emb) = Len(l.live)

\* C8, amended: the live descriptor and every reference embedding the scan
\* compares it with have between 64 and 128 entries each (the two lengths may
\* differ).
C8_BoundedLengths ==
    \A l \in Serving :
        l.pc = "scan" =>
            /\ Len(l.live) >= MinDims
            /\ Len(l.live) <= MaxDims
            /\ \A i \in Considered(l.rows) :
                  /\ Len(Decode(l.rows[i].embedding).emb) >= MinDims
                  /\ Len(Decode(l.rows[i].embedding).emb) <= MaxDims

\* a scan is about to compare a live descriptor truncated to 128 entries with
\* a reference embedding of 128 entries and with one of 80
C8_Witness ==
    \E l \in Serving :
        /\ l.pc = "scan"
        /\ Len(l.body) = 130 /\ Len(l.live) = 128
        /\ \E i, j \in Considered(l.rows) :
              /\ Len(Decode(l.rows[i].embedding).emb) = 128
              /\ Len(Decode(l.rows[j].embedding).emb) = 80

\* ---- C9
\* C9: the student a check-in matched owns a candidate whose similarity no
\* candidate exceeds and no earlier candidate equals, in the order the
\* candidate query returned the rows.
C9_FirstBestWins ==
    \A l \in Serving :
        l.pc = "upsert" =>
            \E sims \in {[i \in Considered(l.rows) |->
                            SimAt(l.rows, l.live, i)]} :
                \E i \in DOMAIN sims :
                    /\ l.rows[i].student_id = l.best_id
                    /\ SimEQ(sims[i], l.best_sim)
                    /\ \A j \in DOMAIN sims :
                          /\ ~SimLT(sims[i], sims[j])
                          /\ j < i => ~SimEQ(sims[j], sims[i])

\* two candidates tie at the best similarity and the first one returned is
\* the match
C9_Witness ==
    \E l \in Serving :
        /\ l.pc = "upsert"
        /\ Len(l.rows) = 2
        /\ SimEQ(SimAt(l.rows, l.live, 1),
                 SimAt(l.rows, l.live, 2))
        /\ l.best_id = l.rows[1].student_id

\* ---- C10
Decodable(rows) == SelectSeq(rows, Decodes)

MalformedRowsAreAbsent ==
    \A l \in Serving :
        (ScanRejects(l) \/ \E m \in Serving2 : ScanAccepts(l, m)) =>
            \E clean \in {Decodable(l.rows)} :
                \E best \in {Scan(clean, l.live)} :
                    LET matches == clean # <<>> /\ ~Rejected(best.id, best.sim)
                    IN  /\ ScanRejects(l) => (~matches /\ last'.resp.code = 404)
                        /\ \A m \in Serving2 :
                              ScanAccepts(l, m) => (matches /\ m.best_id = best.id)

\* C10: a candidate row whose stored value is a string that json.loads cannot
\* decode does not abort the scan: the scan ends in a match or in 404, and in
\* the same one, with the same matched student, as the scan of the candidate
\* list without the rows that do not decode.
C10_MalformedSkipped == [][MalformedRowsAreAbsent]_vars

\* the first candidate returned did not decode and the second one is the match
C10_Witness ==
    \E l \in Serving :
        /\ l.pc = "upsert"
        /\ Len(l.rows) = 2
        /\ ~Decodes(l.rows[1])
        /\ l.best_id = l.rows[2].student_id

====
